---- MODULE Spec2Model ----
(***************************************************************************)
(* ByteAccordion: byte cursors over buffers and files (ConsumableBuffer,   *)
(* ConsumableFile), append-only writers (ExpandingBuffer, ExpandingFile)   *)
(* and the StreamPipeline copy engine, as state machines.                  *)
(*                                                                         *)
(* Every object is a record carrying the fields of the class; every        *)
(* method is an operator from the object (and the platform state it        *)
(* touches) to an outcome record, and an action that applies it.           *)
(***************************************************************************)
EXTENDS Integers, Sequences, FiniteSets, TLC

VARIABLES
    data,      \* the bytes given to the ConsumableBuffer constructor = the bytes of the file at ConsumableFile.path
    legacy,    \* platform: TRUE when fh.read maps every negative position to "current file position"
    cb,        \* ConsumableBuffer: [originalBuffer, buf]
    cf,        \* ConsumableFile: [fh, filesize, position]
    cfCursor,  \* file offset of the read handle's open file description
    cfHandles, \* descriptors the ConsumableFile opened on the file and has not closed
    res,       \* outcome of the last call on a consumable resource
    eb,        \* ExpandingBuffer: [buf, position]
    ebWritten, \* the normalized chunks written to eb since construction or reset, concatenated
    ebres,     \* the last call on the ExpandingBuffer: [op, ret, pre]
    ef,        \* ExpandingFile: [fh, position]
    dst,       \* the file at ExpandingFile.path: [bytes, open, cursor]
    efWritten, \* the byte sequences written or pumped to ef since open, concatenated in call order
    sess,      \* what happened to ef since its last open: [loaded, closed, wrote, failed]
    results,   \* the results {offset, wrote} of the pumps resolved since the last open, in order
    sp,        \* StreamPipeline: [sbuf, destination]
    wq,        \* writes handed to a destination stream and not yet carried out
    pumps,     \* the pumps whose promise is pending, by id
    srcCursor, \* file offset of the caller's own source handle
    srcOpen,   \* read handles that pumps opened on a source path and that are still open
    pres       \* what the pump settled last gave its caller: [how, emitted, err, moved]

consumableVars == <<data, legacy, cb, cf, cfCursor, cfHandles, res>>

expandingVars == <<eb, ebWritten, ebres, ef, dst, efWritten, sess, results>>

pipelineVars == <<sp, wq, pumps, srcCursor, srcOpen, pres>>

otherThanConsumable == <<expandingVars, pipelineVars>>

otherThanExpanding == <<consumableVars, pipelineVars>>

vars == <<consumableVars, expandingVars, pipelineVars>>

-----------------------------------------------------------------------------
(* Bounds *)

MaxLen == 3      \* longest byte sequence behind a consumable resource
MaxArg == 4      \* largest byte count passed to read/seek/aseek
MaxPos == 5      \* cap on ConsumableFile.position (seek adds without limit)
MaxBack == 2     \* cap on how far below zero ConsumableFile.position is driven
MaxHandles == 2  \* descriptors a ConsumableFile can hold open at once (open without close)
MaxWritten == 3  \* cap on the bytes written to an expanding resource on its own
MaxFile == 2     \* cap on the bytes written and pumped to the destination of a pipeline
MaxFd == 1       \* file descriptors the destination file can have open at once
MaxPumps == 2    \* pumps resolved between two opens of the destination
ChunkSize == 1   \* bytes a read stream hands over at a time
MaxOverlap == 2  \* pumps that can be pending at once
MaxSrcOpen == 1  \* read handles opened by pumps that can be open at once
MaxQueue == 2    \* chunks a write stream buffers before the piped source is paused

-----------------------------------------------------------------------------
(* Byte sequences *)

Min(a, b) == IF a < b THEN a ELSE b

Max(a, b) == IF a > b THEN a ELSE b

\* Buffer.prototype.slice(from, to): bytes from..to-1, zero based, clamped.
Slice(b, from, to) ==
    LET f == Min(Max(from, 0), Len(b))
        t == Min(Max(to, f), Len(b))
    IN  SubSeq(b, f + 1, t)

IsSuffix(s, t) ==
    /\ Len(s) <= Len(t)
    /\ s = SubSeq(t, Len(t) - Len(s) + 1, Len(t))

\* "INDEXES": pairwise distinct up to the sixth byte, so a misplaced read shows.
Sample == <<73, 78, 68, 69, 88, 83, 33>>

Inputs == { SubSeq(Sample, 1, k) : k \in 0..MaxLen }

Absent == <<>>

-----------------------------------------------------------------------------
(* ConsumableBuffer *)

CBNew(buf) == [originalBuffer |-> buf, buf |-> buf]

\* A reset that forgets to restore the buffer.
CBResetNoop(s) == s

CBReset(s) == [s EXCEPT !.buf = s.originalBuffer]

\* An outcome: the object afterwards, the error kind ("ok" when none) and
\* the bytes handed back.
Out(st, kind, bytes) == [st |-> st, kind |-> kind, bytes |-> bytes]

\* A read that hands back the front bytes and keeps the front of the
\* buffer instead of what follows them.
CBReadKeepsFront(s, bytes) ==
    IF bytes < 0 THEN Out(s, "invalid-argument", <<>>)
    ELSE IF bytes = 0 THEN Out(s, "ok", <<>>)
    ELSE IF bytes > Len(s.buf) THEN Out(s, "out-of-range", <<>>)
    ELSE Out([s EXCEPT !.buf = Slice(s.buf, 0, Len(s.buf) - bytes)], "ok",
             Slice(s.buf, 0, bytes))

CBRead(s, bytes) ==
    IF bytes < 0 THEN Out(s, "invalid-argument", <<>>)
    ELSE IF bytes = 0 THEN Out(s, "ok", <<>>)
    ELSE IF bytes > Len(s.buf) THEN Out(s, "out-of-range", <<>>)
    ELSE Out([s EXCEPT !.buf = Slice(s.buf, bytes, Len(s.buf))], "ok",
             Slice(s.buf, 0, bytes))

\* A seek that takes a negative argument as a step backward in the
\* original buffer.
CBSeekSigned(s, bytes) ==
    IF bytes > Len(s.buf) THEN Out(s, "out-of-range", <<>>)
    ELSE IF bytes < 0
    THEN LET offset == Len(s.originalBuffer) - Len(s.buf) + bytes
         IN  IF offset < 0 THEN Out(s, "invalid-argument", <<>>)
             ELSE Out([s EXCEPT !.buf = Slice(s.originalBuffer, offset,
                                              Len(s.originalBuffer))], "ok", <<>>)
    ELSE LET r == CBRead(s, bytes) IN Out(r.st, r.kind, <<>>)

CBSeek(s, bytes) ==
    IF bytes > Len(s.buf) THEN Out(s, "out-of-range", <<>>)
    ELSE LET r == CBRead(s, bytes) IN Out(r.st, r.kind, <<>>)

CBAseek(s, bytes) == CBSeek(CBReset(s), bytes)

\* A JavaScript number handed to read or seek: a finite integer, NaN,
\* +Infinity or -Infinity.
Finite(n) == [k |-> "finite", v |-> n]

NaN == [k |-> "nan", v |-> 0]

PosInfinity == [k |-> "infinite", v |-> 1]

NegInfinity == [k |-> "infinite", v |-> -1]

\* x > n for a number x and an integer n: false for NaN and -Infinity.
Greater(x, n) == IF x.k = "finite" THEN x.v > n ELSE x = PosInfinity

\* read with any number: isNaN(bytes) || !isFinite(bytes) || bytes < 0
\* comes first.
CBReadNumber(s, x) ==
    IF x.k # "finite" THEN Out(s, "invalid-argument", <<>>)
    ELSE CBRead(s, x.v)

\* seek with any number: bytes > this.buf.length comes first, then read.
CBSeekNumber(s, x) ==
    IF Greater(x, Len(s.buf)) THEN Out(s, "out-of-range", <<>>)
    ELSE LET r == CBReadNumber(s, x) IN Out(r.st, r.kind, <<>>)

-----------------------------------------------------------------------------
(* ConsumableFile *)

CFNew == [fh |-> 0, filesize |-> Absent, position |-> 0]

CFIsOpen(s) == s.fh # 0 /\ s.filesize # Absent

Size(s) == s.filesize[1]

\* An open that keeps the position the instance had.
CFOpenKeepsPosition(s, file) == [s EXCEPT !.fh = 1, !.filesize = <<Len(file)>>]

\* fs.promises.open(path, 'r') followed by fh.stat(): a handle at offset 0
\* and the length of the file.
CFOpen(s, file) == [s EXCEPT !.fh = 1, !.filesize = <<Len(file)>>, !.position = 0]

\* open(): fs.promises.access fails for a path that cannot be read, and
\* then nothing has been assigned.
CFTryOpen(s, file, readable) ==
    IF readable THEN Out(CFOpen(s, file), "ok", <<>>)
    ELSE Out(s, "unreadable", <<>>)

\* A close that keeps the position of the file it closed.
CFCloseKeepsPosition(s) == [s EXCEPT !.fh = 0, !.filesize = Absent]

CFClose(s) == [s EXCEPT !.fh = 0, !.filesize = Absent, !.position = 0]

\* if (this.fh !== undefined) await this.fh.close(): the descriptors left
\* open of the handles that were.
CFRelease(s, handles) == IF s.fh # 0 THEN handles - 1 ELSE handles

CFReset(s) == [s EXCEPT !.position = 0]

\* fh.read(Buffer.alloc(bytes), 0, bytes, position): a positioned read for
\* position >= 0, which leaves the handle's offset alone; position -1 reads
\* at the handle's offset and advances it; a position below -1 does the
\* same on a legacy platform and is refused by a validating one.
\* The result: [refused, got, cursor].
FhRead(file, cursor, bytes, position, leg) ==
    IF position >= 0
    THEN [refused |-> FALSE, got |-> Slice(file, position, position + bytes), cursor |-> cursor]
    ELSE IF position = -1 \/ leg
    THEN LET got == Slice(file, cursor, cursor + bytes)
         IN  [refused |-> FALSE, got |-> got, cursor |-> cursor + Len(got)]
    ELSE [refused |-> TRUE, got |-> <<>>, cursor |-> cursor]

\* The outcome of a file read also carries the handle's offset afterwards.
FOut(st, kind, bytes, cursor) ==
    [st |-> st, kind |-> kind, bytes |-> bytes, cursor |-> cursor]

\* A read that answers read(0) before it looks for the handle.
CFReadZeroFirst(s, file, cursor, bytes, leg) ==
    IF bytes = 0 THEN FOut(s, "ok", <<>>, cursor)
    ELSE IF ~CFIsOpen(s) THEN FOut(s, "not-opened", <<>>, cursor)
    ELSE IF bytes < 0 THEN FOut(s, "invalid-argument", <<>>, cursor)
    ELSE IF s.position + bytes > Size(s) THEN FOut(s, "out-of-range", <<>>, cursor)
    ELSE LET r == FhRead(file, cursor, bytes, s.position, leg)
             t == [s EXCEPT !.position = s.position + bytes]
         IN  IF r.refused THEN FOut(s, "platform-error", <<>>, cursor)
             ELSE IF Len(r.got) # bytes THEN FOut(t, "short-read", <<>>, r.cursor)
             ELSE FOut(t, "ok", r.got, r.cursor)

\* A read that compares with filesize before it looks for read(0).
CFReadRangeFirst(s, file, cursor, bytes, leg) ==
    IF ~CFIsOpen(s) THEN FOut(s, "not-opened", <<>>, cursor)
    ELSE IF bytes < 0 THEN FOut(s, "invalid-argument", <<>>, cursor)
    ELSE IF s.position + bytes > Size(s) THEN FOut(s, "out-of-range", <<>>, cursor)
    ELSE IF bytes = 0 THEN FOut(s, "ok", <<>>, cursor)
    ELSE LET r == FhRead(file, cursor, bytes, s.position, leg)
             t == [s EXCEPT !.position = s.position + bytes]
         IN  IF r.refused THEN FOut(s, "platform-error", <<>>, cursor)
             ELSE IF Len(r.got) # bytes THEN FOut(t, "short-read", <<>>, r.cursor)
             ELSE FOut(t, "ok", r.got, r.cursor)

\* A read that hands back the fewer bytes it got.
CFReadReturnsShort(s, file, cursor, bytes, leg) ==
    IF ~CFIsOpen(s) THEN FOut(s, "not-opened", <<>>, cursor)
    ELSE IF bytes < 0 THEN FOut(s, "invalid-argument", <<>>, cursor)
    ELSE IF bytes = 0 THEN FOut(s, "ok", <<>>, cursor)
    ELSE IF s.position + bytes > Size(s) THEN FOut(s, "out-of-range", <<>>, cursor)
    ELSE LET r == FhRead(file, cursor, bytes, s.position, leg)
             t == [s EXCEPT !.position = s.position + Len(r.got)]
         IN  IF r.refused THEN FOut(s, "platform-error", <<>>, cursor)
             ELSE FOut(t, "ok", r.got, r.cursor)

\* A read that leaves position where it was.
CFReadNoAdvance(s, file, cursor, bytes, leg) ==
    IF ~CFIsOpen(s) THEN FOut(s, "not-opened", <<>>, cursor)
    ELSE IF bytes < 0 THEN FOut(s, "invalid-argument", <<>>, cursor)
    ELSE IF bytes = 0 THEN FOut(s, "ok", <<>>, cursor)
    ELSE IF s.position + bytes > Size(s) THEN FOut(s, "out-of-range", <<>>, cursor)
    ELSE LET r == FhRead(file, cursor, bytes, s.position, leg)
         IN  IF r.refused THEN FOut(s, "platform-error", <<>>, cursor)
             ELSE IF Len(r.got) # bytes THEN FOut(s, "short-read", <<>>, r.cursor)
             ELSE FOut(s, "ok", r.got, r.cursor)

CFRead(s, file, cursor, bytes, leg) ==
    IF ~CFIsOpen(s) THEN FOut(s, "not-opened", <<>>, cursor)
    ELSE IF bytes < 0 THEN FOut(s, "invalid-argument", <<>>, cursor)
    ELSE IF bytes = 0 THEN FOut(s, "ok", <<>>, cursor)
    ELSE IF s.position + bytes > Size(s) THEN FOut(s, "out-of-range", <<>>, cursor)
    ELSE LET r == FhRead(file, cursor, bytes, s.position, leg)
             t == [s EXCEPT !.position = s.position + bytes]
         IN  IF r.refused THEN FOut(s, "platform-error", <<>>, cursor)
             ELSE IF Len(r.got) # bytes THEN FOut(t, "short-read", <<>>, r.cursor)
             ELSE FOut(t, "ok", r.got, r.cursor)

\* An absolute seek that checks its target against filesize.
CFAseekChecksTarget(s, bytes) ==
    IF ~CFIsOpen(s) THEN Out(s, "not-opened", <<>>)
    ELSE IF bytes <= 0 THEN Out(s, "invalid-argument", <<>>)
    ELSE IF bytes > Size(s) THEN Out(s, "out-of-range", <<>>)
    ELSE Out([s EXCEPT !.position = bytes], "ok", <<>>)

\* An absolute seek without the check against filesize.
CFAseekUnchecked(s, bytes) ==
    IF ~CFIsOpen(s) THEN Out(s, "not-opened", <<>>)
    ELSE IF bytes <= 0 THEN Out(s, "invalid-argument", <<>>)
    ELSE Out([s EXCEPT !.position = bytes], "ok", <<>>)

CFAseek(s, bytes) ==
    IF ~CFIsOpen(s) THEN Out(s, "not-opened", <<>>)
    ELSE IF bytes <= 0 THEN Out(s, "invalid-argument", <<>>)
    ELSE IF s.position > Size(s) THEN Out(s, "out-of-range", <<>>)
    ELSE Out([s EXCEPT !.position = bytes], "ok", <<>>)

\* A relative seek that takes its argument from the start of the file.
CFSeekFromStart(s, bytes) == CFAseek(s, bytes)

\* this.aseek(this.position += bytes): the addition is stored first.
CFSeek(s, bytes) ==
    CFAseek([s EXCEPT !.position = s.position + bytes], s.position + bytes)

-----------------------------------------------------------------------------
(* The input of write: Buffer | number[] | string | number *)

\* Buffer.from(array) and Buffer.from([number]) keep the low 8 bits.
\* A conversion that clamps to 0..255, as a Uint8ClampedArray does.
ToUint8Clamps(v) == IF v < 0 THEN 0 ELSE IF v > 255 THEN 255 ELSE v

ToUint8(v) == v % 256

\* Integers a caller hands to write as a single byte.
Numbers == {-65535, -256, -1, 0, 65, 255, 256, 511}

\* write(v) with a number.
Num(v) == [t |-> "number", v |-> v]

\* Buffer.from(string): UTF-8; the strings here hold code points below 2048.
Utf8(cp) ==
    IF cp < 128 THEN <<cp>>
    ELSE <<192 + (cp \div 64), 128 + (cp % 64)>>

RECURSIVE Utf8Seq(_)
Utf8Seq(str) ==
    IF str = <<>> THEN <<>> ELSE Utf8(Head(str)) \o Utf8Seq(Tail(str))

\* let inBuffer = ... of ExpandingBuffer.write and ExpandingFile.write
Normalize(input) ==
    CASE input.t = "buffer" -> input.v
      [] input.t = "array"  -> [i \in 1..Len(input.v) |-> ToUint8(input.v[i])]
      [] input.t = "string" -> Utf8Seq(input.v)
      [] input.t = "number" -> <<ToUint8(input.v)>>

WriteInputs ==
    { [t |-> "buffer", v |-> <<84, 69>>],
      [t |-> "buffer", v |-> <<>>],
      [t |-> "array",  v |-> <<257, -1>>],
      [t |-> "string", v |-> <<116, 233>>],
      [t |-> "number", v |-> -65535],
      [t |-> "number", v |-> 65] }

-----------------------------------------------------------------------------
(* ExpandingBuffer *)

EBNew == [buf |-> <<>>, position |-> 0]

\* A reset that empties the buffer and keeps the position.
EBResetKeepsPosition(s) == [s EXCEPT !.buf = <<>>]

EBReset(s) == [s EXCEPT !.buf = <<>>, !.position = 0]

\* An outcome of write: the object afterwards, the error kind and the
\* number returned.
WOut(st, kind, ret) == [st |-> st, kind |-> kind, ret |-> ret]

\* A write that returns the length of what it appended.
EBWriteReturnsChunk(s, input) ==
    LET inBuffer == Normalize(input)
        buf == s.buf \o inBuffer
    IN  WOut([s EXCEPT !.buf = buf, !.position = Len(buf)], "ok", Len(inBuffer))

\* What the caller saw of the last call on the ExpandingBuffer: the
\* method, the number returned and the length of buf before the call.
EBRes(op, ret, pre) == [op |-> op, ret |-> ret, pre |-> pre]

EBWrite(s, input) ==
    LET inBuffer == Normalize(input)
        buf == s.buf \o inBuffer
    IN  WOut([s EXCEPT !.buf = buf, !.position = Len(buf)], "ok", Len(buf))

-----------------------------------------------------------------------------
(* ExpandingFile and the file it writes *)

Fds == 1..MaxFd

\* The file at path: its bytes, the descriptors open on it, and the file
\* offset of each descriptor.
NoFile == [bytes |-> <<>>, open |-> {}, cursor |-> [fd \in Fds |-> 0]]

Zeros(n) == [i \in 1..n |-> 0]

\* write(2) of chunk at offset at: the bytes before, a hole of zeros when
\* the offset lies beyond the end, the chunk, and what it did not cover.
WriteAt(bytes, chunk, at) ==
    IF chunk = <<>> THEN bytes
    ELSE Slice(bytes, 0, at) \o Zeros(Max(at - Len(bytes), 0)) \o chunk
             \o Slice(bytes, at + Len(chunk), Len(bytes))

EFNew == [fh |-> 0, position |-> 0]

\* An open that appends to what the file holds.
EFOpenAppends(s, d, fd) ==
    [st  |-> [s EXCEPT !.fh = fd, !.position = 0],
     dst |-> [d EXCEPT !.open = d.open \cup {fd}, !.cursor[fd] = 0]]

\* fs.promises.open(path, 'w'): the file is truncated and fd is a new
\* descriptor at offset 0. The outcome: [st, dst].
EFOpen(s, d, fd) ==
    [st  |-> [s EXCEPT !.fh = fd, !.position = 0],
     dst |-> [bytes |-> <<>>, open |-> d.open \cup {fd},
              cursor |-> [d.cursor EXCEPT ![fd] = 0]]]

EFClose(s, d) ==
    [st  |-> [s EXCEPT !.fh = 0, !.position = 0],
     dst |-> IF s.fh # 0 THEN [d EXCEPT !.open = d.open \ {s.fh}] ELSE d]

\* An outcome of ExpandingFile.write: [st, kind, ret, dst].
EFOut(st, kind, ret, d) == [st |-> st, kind |-> kind, ret |-> ret, dst |-> d]

\* A write that always lands at the start of the file.
EFWriteAtStart(s, d, input) ==
    IF s.fh = 0 THEN EFOut(s, "not-opened", 0, d)
    ELSE LET inBuffer == Normalize(input)
             bytesWritten == Len(inBuffer)
             t == [s EXCEPT !.position = s.position + bytesWritten]
         IN  EFOut(t, "ok", t.position,
                   [d EXCEPT !.bytes = WriteAt(d.bytes, inBuffer, 0)])

\* fh.write(inBuffer, 0, inBuffer.length, this.position): a positioned
\* write, which leaves the descriptor's own offset where it was.
EFWrite(s, d, input) ==
    IF s.fh = 0 THEN EFOut(s, "not-opened", 0, d)
    ELSE LET inBuffer == Normalize(input)
             bytesWritten == Len(inBuffer)
             t == [s EXCEPT !.position = s.position + bytesWritten]
         IN  EFOut(t, "ok", t.position,
                   [d EXCEPT !.bytes = WriteAt(d.bytes, inBuffer, s.position)])

\* A write that adds the length of its input to position whatever the
\* platform reports.
EFWriteCountsInput(s, d, input, accepted) ==
    IF s.fh = 0 THEN EFOut(s, "not-opened", 0, d)
    ELSE LET inBuffer == Normalize(input)
             t == [s EXCEPT !.position = s.position + Len(inBuffer)]
         IN  EFOut(t, "ok", t.position,
                   [d EXCEPT !.bytes = WriteAt(d.bytes, Slice(inBuffer, 0, accepted),
                                               s.position)])

\* write when the platform's positioned write takes only the first accepted
\* bytes of the input and reports that count as bytesWritten.
EFWriteShort(s, d, input, accepted) ==
    IF s.fh = 0 THEN EFOut(s, "not-opened", 0, d)
    ELSE LET inBuffer == Normalize(input)
             bytesWritten == Min(accepted, Len(inBuffer))
             t == [s EXCEPT !.position = s.position + bytesWritten]
         IN  EFOut(t, "ok", t.position,
                   [d EXCEPT !.bytes = WriteAt(d.bytes, Slice(inBuffer, 0, bytesWritten),
                                               s.position)])

-----------------------------------------------------------------------------
(* StreamPipeline *)

\* What has happened to the ExpandingFile since its last open: a pipeline
\* was loaded on it, it was closed, it was written directly, a call failed;
\* truncated is the number of bytes that open found in the file and dropped.
FreshSession ==
    [loaded |-> FALSE, closed |-> FALSE, wrote |-> FALSE, failed |-> FALSE,
     truncated |-> 0]

\* destination is the descriptor the write stream was created on, 0 when
\* there is none; sbuf tells whether the ExpandingFile is referenced.
SPNew == [sbuf |-> FALSE, destination |-> 0]

\* A load that binds whatever it is given.
SPLoadUnchecked(s, dest) ==
    [st |-> [s EXCEPT !.sbuf = TRUE, !.destination = dest.fh], kind |-> "ok"]

\* The outcome of load: [st, kind].
SPLoad(s, dest) ==
    IF dest.fh = 0 THEN [st |-> s, kind |-> "precondition"]
    ELSE [st |-> [s EXCEPT !.sbuf = TRUE, !.destination = dest.fh], kind |-> "ok"]

\* The file every path and handle source refers to.
SrcFile == <<83, 82>>

PumpBuffers == {<<80>>, <<81, 85>>}

\* What the caller of a pipeline writes to the destination directly.
DirectWrites == { [t |-> "buffer", v |-> <<87>>] }

\* An optional argument: <<>> when left out, <<n>> when given.
Given(n) == <<n>>

Starts == {Absent, Given(1)}

Lengths == {Absent, Given(1)}

\* fs.createReadStream('', {fd, start, end}) with end = start + length - 1:
\* the bytes the stream will deliver. Without start the stream reads from
\* the descriptor's own offset, and length is not looked at.
StreamBytes(file, cursor, start, length) ==
    IF start = Absent THEN Slice(file, cursor, Len(file))
    ELSE IF length = Absent THEN Slice(file, start[1], Len(file))
    ELSE Slice(file, start[1], start[1] + length[1])

\* The bytes of the pumps in ps that are still to be accounted for.
RECURSIVE PendingBytes(_, _)
PendingBytes(ps, ids) ==
    IF ids = {} THEN 0
    ELSE LET i == CHOOSE i \in ids : TRUE
         IN  Len(ps[i].src) + PendingBytes(ps, ids \ {i})

\* A pump that reserves its range when it is issued: it starts after the
\* bytes of every pump still pending.
PumpReserves(kind, src, dest, moves, owned, st) ==
    [kind |-> kind, src |-> src, bytesRead |-> 0, dest |-> dest,
     moves |-> moves, owned |-> owned, st |-> st,
     from |-> ef.position + PendingBytes(pumps, DOMAIN pumps)]

\* A pending pump: the kind of its source, the bytes the source holds for
\* it, the count the read stream has read (bytesRead), the descriptor of the
\* write stream it feeds, whether the stream moves the caller's descriptor
\* offset, whether the pump holds a handle it opened itself, and where it
\* stands: "writing" (a buffer handed to destination.write), "flowing" (a
\* piped stream), "unpiped" (a stream the destination dropped), "lost" (the
\* executor returned without registering anything). from is the
\* destination's position when the pump was issued.
Pump(kind, src, dest, moves, owned, st) ==
    [kind |-> kind, src |-> src, bytesRead |-> 0, dest |-> dest,
     moves |-> moves, owned |-> owned, st |-> st, from |-> ef.position]

\* What a settled pump gave its caller: how it settled ("resolved",
\* "rejected"; "none" before any pump), the error its source stream
\* emitted, the error the caller got, and whether the destination's
\* position differs from what it was when the pump was issued.
PumpResult(how, emitted, err, moved) ==
    [how |-> how, emitted |-> emitted, err |-> err, moved |-> moved]

NoResult == PumpResult("none", "", "", FALSE)

\* The errors a read stream emits here: a failed read, a directory.
SourceErrors == {"EIO", "EISDIR"}

\* A pipe that ends its destination with the source, and a destination
\* that closes its descriptor when it ends.
PipeEndCloses(d, fd) == [d EXCEPT !.open = d.open \ {fd}]

\* content.pipe(this.destination, { end: false }) on a stream created with
\* autoClose: false: the end of the source leaves the destination, and the
\* descriptor under it, as they are.
PipeEnd(d, fd) == d

\* A listener that rejects with an error of its own.
RejectionWraps(err) == "Error"

\* content.on('error', (err) => reject(err))
Rejection(err) == err

\* A completion that reports the offset and leaves position alone.
CompletionKeepsPosition(position, count) ==
    [res |-> [offset |-> position, wrote |-> count], position |-> position]

\* A completion that reports the position after the write as the offset.
CompletionReportsEnd(position, count) ==
    [res |-> [offset |-> position + count, wrote |-> count], position |-> position + count]

\* The body of the write callback and of the 'end' listener: the result
\* and the destination's position afterwards.
Completion(position, count) ==
    [res |-> [offset |-> position, wrote |-> count], position |-> position + count]

-----------------------------------------------------------------------------
(* The calls on the consumable resources *)

Args == (-1)..MaxArg

\* What the caller saw of the last call: the object it was made on, the
\* method, its argument, the error kind ("ok" when none), the bytes handed
\* back, and the object as it was before the call.
Res(obj, op, arg, kind, bytes, pre) ==
    [obj |-> obj, op |-> op, arg |-> arg, kind |-> kind, bytes |-> bytes, pre |-> pre]

ConsumableObjects ==
    /\ data \in Inputs
    /\ legacy \in BOOLEAN
    /\ cb = CBNew(data)
    /\ cf = CFNew
    /\ cfCursor = 0
    /\ cfHandles = 0
    /\ res = Res("none", "new", 0, "ok", <<>>, CFNew)

\* The expanding resources as constructed, next to a file not yet created.
ExpandingAsNew ==
    /\ eb = EBNew
    /\ ebWritten = <<>>
    /\ ebres = EBRes("new", 0, 0)
    /\ ef = EFNew
    /\ dst = NoFile
    /\ efWritten = <<>>
    /\ sess = FreshSession
    /\ results = <<>>

\* The pipeline as constructed, with no pump issued.
PipelineAsNew ==
    /\ sp = SPNew
    /\ wq = <<>>
    /\ pumps = <<>>
    /\ srcCursor = 0
    /\ srcOpen = 0
    /\ pres = NoResult

\* The consumable resources as constructed over the sample bytes.
ConsumableAsNew ==
    /\ data = SubSeq(Sample, 1, MaxLen)
    /\ legacy = TRUE
    /\ cb = CBNew(data)
    /\ cf = CFNew
    /\ cfCursor = 0
    /\ cfHandles = 0
    /\ res = Res("none", "new", 0, "ok", <<>>, CFNew)

InitConsumable == ConsumableObjects /\ ExpandingAsNew /\ PipelineAsNew

ConsumableBuffer_reset ==
    /\ cb' = CBReset(cb)
    /\ res' = Res("cb", "reset", 0, "ok", <<>>, cb)
    /\ UNCHANGED <<data, legacy, cf, cfCursor, cfHandles, otherThanConsumable>>

ConsumableBuffer_read ==
    \E bytes \in Args :
        LET o == CBRead(cb, bytes)
        IN  /\ cb' = o.st
            /\ res' = Res("cb", "read", bytes, o.kind, o.bytes, cb)
            /\ UNCHANGED <<data, legacy, cf, cfCursor, cfHandles, otherThanConsumable>>

ConsumableBuffer_seek ==
    \E bytes \in Args :
        LET o == CBSeek(cb, bytes)
        IN  /\ cb' = o.st
            /\ res' = Res("cb", "seek", bytes, o.kind, o.bytes, cb)
            /\ UNCHANGED <<data, legacy, cf, cfCursor, cfHandles, otherThanConsumable>>

ConsumableBuffer_aseek ==
    \E bytes \in Args :
        LET o == CBAseek(cb, bytes)
        IN  /\ cb' = o.st
            /\ res' = Res("cb", "aseek", bytes, o.kind, o.bytes, cb)
            /\ UNCHANGED <<data, legacy, cf, cfCursor, cfHandles, otherThanConsumable>>

\* fs.promises.access decides whether open goes on; the path may or may not
\* be readable.
\* open() does not look at a handle the instance already holds: the new
\* descriptor takes its place and the old one stays open.
ConsumableFile_open ==
    \E readable \in BOOLEAN :
        /\ readable => cfHandles < MaxHandles
        /\ LET o == CFTryOpen(cf, data, readable)
           IN  /\ cf' = o.st
               /\ cfCursor' = IF readable THEN 0 ELSE cfCursor
               /\ cfHandles' = IF readable THEN cfHandles + 1 ELSE cfHandles
               /\ res' = Res("cf", "open", 0, o.kind, <<>>, cf)
        /\ UNCHANGED <<data, legacy, cb, otherThanConsumable>>

ConsumableFile_close ==
    /\ cf' = CFClose(cf)
    /\ cfHandles' = CFRelease(cf, cfHandles)
    /\ res' = Res("cf", "close", 0, "ok", <<>>, cf)
    /\ UNCHANGED <<data, legacy, cb, cfCursor, otherThanConsumable>>

ConsumableFile_reset ==
    /\ cf' = CFReset(cf)
    /\ res' = Res("cf", "reset", 0, "ok", <<>>, cf)
    /\ UNCHANGED <<data, legacy, cb, cfCursor, cfHandles, otherThanConsumable>>

ConsumableFile_read ==
    \E bytes \in Args :
        LET o == CFRead(cf, data, cfCursor, bytes, legacy)
        IN  /\ cf' = o.st
            /\ cfCursor' = o.cursor
            /\ res' = Res("cf", "read", bytes, o.kind, o.bytes, cf)
            /\ UNCHANGED <<data, legacy, cb, cfHandles, otherThanConsumable>>

ConsumableFile_seek ==
    \E bytes \in Args :
        /\ cf.position + bytes <= MaxPos
        /\ cf.position + bytes >= 0 - MaxBack
        /\ LET o == CFSeek(cf, bytes)
           IN  /\ cf' = o.st
               /\ res' = Res("cf", "seek", bytes, o.kind, o.bytes, cf)
        /\ UNCHANGED <<data, legacy, cb, cfCursor, cfHandles, otherThanConsumable>>

ConsumableFile_aseek ==
    \E bytes \in Args :
        LET o == CFAseek(cf, bytes)
        IN  /\ cf' = o.st
            /\ res' = Res("cf", "aseek", bytes, o.kind, o.bytes, cf)
            /\ UNCHANGED <<data, legacy, cb, cfCursor, cfHandles, otherThanConsumable>>

NextConsumable ==
    \/ ConsumableBuffer_reset
    \/ ConsumableBuffer_read
    \/ ConsumableBuffer_seek
    \/ ConsumableBuffer_aseek
    \/ ConsumableFile_open
    \/ ConsumableFile_close
    \/ ConsumableFile_reset
    \/ ConsumableFile_read
    \/ ConsumableFile_seek
    \/ ConsumableFile_aseek

SpecConsumable == InitConsumable /\ [][NextConsumable]_vars

-----------------------------------------------------------------------------
(* The calls on the expanding resources *)

ExpandingBuffer_reset ==
    /\ eb' = EBReset(eb)
    /\ ebWritten' = <<>>
    /\ ebres' = EBRes("reset", 0, Len(eb.buf))
    /\ UNCHANGED <<ef, dst, efWritten, sess, results, otherThanExpanding>>

ExpandingBuffer_write ==
    \E input \in WriteInputs :
        /\ Len(eb.buf) + Len(Normalize(input)) <= MaxWritten
        /\ LET o == EBWrite(eb, input)
           IN  /\ eb' = o.st
               /\ ebWritten' = ebWritten \o Normalize(input)
               /\ ebres' = EBRes("write", o.ret, Len(eb.buf))
        /\ UNCHANGED <<ef, dst, efWritten, sess, results, otherThanExpanding>>

\* The descriptor a new open returns is one not open at the time.
ExpandingFile_open ==
    \E fd \in Fds \ dst.open :
        LET o == EFOpen(ef, dst, fd)
        IN  /\ ef' = o.st
            /\ dst' = o.dst
            /\ efWritten' = <<>>
            /\ sess' = [FreshSession EXCEPT !.truncated = Len(dst.bytes)]
            /\ results' = <<>>
            /\ UNCHANGED <<eb, ebWritten, ebres, otherThanExpanding>>

ExpandingFile_close ==
    LET o == EFClose(ef, dst)
    IN  /\ ef' = o.st
        /\ dst' = o.dst
        /\ sess' = [sess EXCEPT !.closed = TRUE]
        /\ UNCHANGED <<eb, ebWritten, ebres, efWritten, results, otherThanExpanding>>

ExpandingFile_write(inputs, cap) ==
    \E input \in inputs :
        /\ ef.position + Len(Normalize(input)) <= cap
        /\ LET o == EFWrite(ef, dst, input)
           IN  /\ ef' = o.st
               /\ dst' = o.dst
               /\ efWritten' = IF o.kind = "ok" THEN efWritten \o Normalize(input)
                                ELSE efWritten
               /\ sess' = IF o.kind = "ok" THEN [sess EXCEPT !.wrote = TRUE] ELSE sess
        /\ UNCHANGED <<eb, ebWritten, ebres, results, otherThanExpanding>>

\* A write of which the platform takes any number of bytes, from none to all.
ExpandingFile_write_short ==
    \E input \in WriteInputs :
        \E accepted \in 0..Len(Normalize(input)) :
            /\ ef.position + accepted <= MaxWritten
            /\ LET o == EFWriteShort(ef, dst, input, accepted)
               IN  /\ ef' = o.st
                   /\ dst' = o.dst
                   /\ efWritten' = IF o.kind = "ok"
                                    THEN efWritten \o Slice(Normalize(input), 0, accepted)
                                    ELSE efWritten
                   /\ sess' = IF o.kind = "ok" THEN [sess EXCEPT !.wrote = TRUE] ELSE sess
            /\ UNCHANGED <<eb, ebWritten, ebres, results, otherThanExpanding>>

InitExpanding == ConsumableAsNew /\ ExpandingAsNew /\ PipelineAsNew

NextExpanding ==
    \/ ExpandingBuffer_reset
    \/ ExpandingBuffer_write
    \/ ExpandingFile_open
    \/ ExpandingFile_close
    \/ ExpandingFile_write(WriteInputs, MaxWritten)

SpecExpanding == InitExpanding /\ [][NextExpanding]_vars

\* An ExpandingFile on a platform whose writes may come back short.
NextShortWrites ==
    \/ ExpandingFile_open
    \/ ExpandingFile_close
    \/ ExpandingFile_write_short

SpecShortWrites == InitExpanding /\ [][NextShortWrites]_vars

\* Another process truncates the file under the open handle: the handle
\* and the filesize the instance recorded at open stay as they are.
File_shrink ==
    /\ data # <<>>
    /\ \E k \in 0..(Len(data) - 1) :
          /\ data' = Slice(data, 0, k)
          /\ res' = Res("os", "truncate", k, "ok", <<>>, cf)
    /\ UNCHANGED <<legacy, cb, cf, cfCursor, cfHandles, otherThanConsumable>>

\* A ConsumableFile over a file that may shrink after open.
NextShrinkingFile ==
    \/ ConsumableFile_open
    \/ ConsumableFile_close
    \/ ConsumableFile_reset
    \/ ConsumableFile_read
    \/ ConsumableFile_aseek
    \/ File_shrink

SpecShrinkingFile == InitConsumable /\ [][NextShrinkingFile]_vars

-----------------------------------------------------------------------------
(* The life cycle of the two file resources side by side *)

InitFiles == ConsumableObjects /\ ExpandingAsNew /\ PipelineAsNew

NextFiles ==
    \/ ConsumableFile_open
    \/ ConsumableFile_close
    \/ ConsumableFile_read
    \/ ConsumableFile_seek
    \/ ExpandingFile_open
    \/ ExpandingFile_close
    \/ ExpandingFile_write(DirectWrites, MaxFile)

SpecFiles == InitFiles /\ [][NextFiles]_vars

-----------------------------------------------------------------------------
(* The calls on the pipeline, and the steps of its streams *)

PumpIds == 1..MaxOverlap

NewId == CHOOSE i \in PumpIds : i \notin DOMAIN pumps /\ \A j \in PumpIds \ DOMAIN pumps : i <= j

With(id, p) == [i \in DOMAIN pumps \cup {id} |-> IF i = id THEN p ELSE pumps[i]]

Without(id) == [i \in DOMAIN pumps \ {id} |-> pumps[i]]

\* The offset the next write through the loaded stream lands at.
DestCursor == IF sp.destination = 0 THEN 0 ELSE dst.cursor[sp.destination]

RECURSIVE Queued(_)
Queued(q) == IF q = <<>> THEN 0 ELSE Len(Head(q).bytes) + Queued(Tail(q))

\* Room for n more bytes, and for one more result.
Room(n) ==
    /\ Max(ef.position, DestCursor) + Queued(wq) + n <= MaxFile
    /\ Len(results) < MaxPumps
    /\ PumpIds \ DOMAIN pumps # {}

StreamPipeline_load ==
    LET o == SPLoad(sp, ef)
    IN  /\ sp' = o.st
        /\ sess' = IF o.kind = "ok" THEN [sess EXCEPT !.loaded = TRUE] ELSE sess
        /\ UNCHANGED <<consumableVars, eb, ebWritten, ebres, ef, dst, efWritten, results>>
        /\ UNCHANGED <<wq, pumps, srcCursor, srcOpen, pres>>

\* pump(Buffer) is _pump(Buffer): without a loaded destination the executor
\* returns and the promise stays pending; otherwise the content is handed to
\* destination.write with the callback of this pump.
StreamPipeline_pump_buffer ==
    \E content \in PumpBuffers :
        /\ Room(Len(content))
        /\ IF ~sp.sbuf \/ sp.destination = 0
           THEN /\ pumps' = With(NewId, Pump("buffer", content, 0, FALSE, FALSE, "lost"))
                /\ wq' = wq
           ELSE /\ pumps' = With(NewId, Pump("buffer", content, sp.destination, FALSE, FALSE, "writing"))
                /\ wq' = Append(wq, [fd |-> sp.destination, bytes |-> content, cb |-> NewId])
        /\ UNCHANGED <<consumableVars, expandingVars, sp, srcCursor, srcOpen, pres>>

\* pump(path): access, open, createReadStream, _pump(stream).
StreamPipeline_pump_path ==
    \E readable \in BOOLEAN, start \in Starts, length \in Lengths :
        LET content == StreamBytes(SrcFile, 0, start, length)
        IN  /\ Room(Len(content))
            /\ readable => srcOpen < MaxSrcOpen
            /\ pumps' = IF ~readable THEN pumps
                         ELSE With(NewId,
                                Pump("path", content, sp.destination, FALSE, TRUE,
                                     IF sp.destination = 0 THEN "lost" ELSE "flowing"))
            /\ srcOpen' = IF readable THEN srcOpen + 1 ELSE srcOpen
            /\ pres' = IF readable THEN pres
                        ELSE PumpResult("rejected", "", "unreadable", FALSE)
            /\ UNCHANGED <<consumableVars, expandingVars, sp, wq, srcCursor>>

\* pump(handle): stat, createReadStream, _pump(stream).
StreamPipeline_pump_handle ==
    \E valid \in BOOLEAN, start \in Starts, length \in Lengths :
        LET content == StreamBytes(SrcFile, srcCursor, start, length)
        IN  /\ Room(Len(content))
            /\ pumps' = IF ~valid THEN pumps
                         ELSE With(NewId,
                                Pump("handle", content, sp.destination, start = Absent, FALSE,
                                     IF sp.destination = 0 THEN "lost" ELSE "flowing"))
            /\ pres' = IF valid THEN pres
                        ELSE PumpResult("rejected", "", "type-error", FALSE)
            /\ UNCHANGED <<consumableVars, expandingVars, sp, wq, srcCursor, srcOpen>>

\* The promise of pump id resolves with what Completion gives for count
\* bytes; pump closes the handle it opened itself once _pump has resolved.
Resolve(id, count) ==
    LET c == Completion(ef.position, count)
    IN  /\ ef' = [ef EXCEPT !.position = c.position]
        /\ results' = Append(results, c.res)
        /\ efWritten' = efWritten \o pumps[id].src
        /\ srcOpen' = IF pumps[id].owned THEN srcOpen - 1 ELSE srcOpen
        /\ pres' = PumpResult("resolved", "", "", c.position # pumps[id].from)
        /\ pumps' = Without(id)

\* A 'data' event of a piped read stream: the next chunk goes to
\* destination.write. pipe pauses the source while the write stream's
\* buffer is full.
Source_data(id) ==
    /\ pumps[id].st = "flowing"
    /\ pumps[id].bytesRead < Len(pumps[id].src)
    /\ Len(wq) < MaxQueue
    /\ LET p == pumps[id]
           n == Min(ChunkSize, Len(p.src) - p.bytesRead)
       IN  /\ pumps' = [pumps EXCEPT ![id].bytesRead = p.bytesRead + n]
           /\ wq' = Append(wq, [fd |-> p.dest,
                                bytes |-> Slice(p.src, p.bytesRead, p.bytesRead + n),
                                cb |-> 0])
           /\ srcCursor' = IF p.moves THEN srcCursor + n ELSE srcCursor
    /\ UNCHANGED <<consumableVars, expandingVars, sp, srcOpen, pres>>

\* The 'end' listener of _pump.
Source_end(id) ==
    /\ pumps[id].st = "flowing"
    /\ pumps[id].bytesRead = Len(pumps[id].src)
    /\ IF ~sp.sbuf
       THEN /\ pumps' = [pumps EXCEPT ![id].st = "lost"]
            /\ UNCHANGED <<ef, results, efWritten, srcOpen, pres>>
       ELSE Resolve(id, pumps[id].bytesRead)
    /\ dst' = PipeEnd(dst, pumps[id].dest)
    /\ UNCHANGED <<consumableVars, eb, ebWritten, ebres, sess, sp, wq, srcCursor>>

\* The 'error' listener of _pump: a read of the source failed.
Source_error(id) ==
    /\ pumps[id].st = "flowing"
    /\ pumps' = Without(id)
    /\ sess' = [sess EXCEPT !.failed = TRUE]
    /\ \E e \in SourceErrors :
          pres' = PumpResult("rejected", e, Rejection(e), ef.position # pumps[id].from)
    /\ UNCHANGED <<consumableVars, eb, ebWritten, ebres, ef, dst, efWritten, results>>
    /\ UNCHANGED <<sp, wq, srcCursor, srcOpen>>

\* The write stream carries out its oldest write, at the offset of its
\* descriptor (the stream was created without a start). The write fails
\* when the descriptor is no longer open. A buffer's callback runs either
\* way; on a failure the stream emits 'error' and the read streams piped
\* into it are unpiped, after which they deliver nothing and never end.
\* (Nothing listens for that 'error' but pipe itself: the process may also
\* end there, and then no pending pump settles either.)
Destination_write ==
    /\ wq # <<>>
    /\ LET h == Head(wq)
           done == h.fd \in dst.open
           called == h.cb # 0 /\ sp.sbuf
       IN  /\ wq' = Tail(wq)
           /\ dst' = IF done
                     THEN [dst EXCEPT !.bytes = WriteAt(dst.bytes, h.bytes, dst.cursor[h.fd]),
                                      !.cursor[h.fd] = dst.cursor[h.fd] + Len(h.bytes)]
                     ELSE dst
           /\ sess' = IF done THEN sess ELSE [sess EXCEPT !.failed = TRUE]
           /\ IF called
              THEN Resolve(h.cb, Len(h.bytes))
              ELSE /\ pumps' = IF done THEN pumps
                               ELSE [i \in DOMAIN pumps |->
                                       IF pumps[i].st = "flowing" /\ pumps[i].dest = h.fd
                                       THEN [pumps[i] EXCEPT !.st = "unpiped"]
                                       ELSE pumps[i]]
                   /\ UNCHANGED <<ef, results, efWritten, srcOpen, pres>>
    /\ UNCHANGED <<consumableVars, eb, ebWritten, ebres, sp, srcCursor>>

\* A caller that awaits every pump makes no call while one is pending.
Awaited == DOMAIN pumps = {}

Caller_open == Awaited /\ ExpandingFile_open

Caller_close == Awaited /\ ExpandingFile_close

Caller_write == Awaited /\ ExpandingFile_write(DirectWrites, MaxFile)

Caller_load == Awaited /\ StreamPipeline_load

Caller_pump_buffer == Awaited /\ StreamPipeline_pump_buffer

Caller_pump_path == Awaited /\ StreamPipeline_pump_path

Caller_pump_handle == Awaited /\ StreamPipeline_pump_handle

Stream_data == \E id \in DOMAIN pumps : Source_data(id)

Stream_end == \E id \in DOMAIN pumps : Source_end(id)

Stream_error == \E id \in DOMAIN pumps : Source_error(id)

InitPipeline == ConsumableAsNew /\ ExpandingAsNew /\ PipelineAsNew

NextPipeline ==
    \/ Caller_open
    \/ Caller_close
    \/ Caller_write
    \/ Caller_load
    \/ Caller_pump_buffer
    \/ Caller_pump_path
    \/ Caller_pump_handle
    \/ Stream_data
    \/ Stream_end
    \/ Stream_error
    \/ Destination_write

SpecPipeline == InitPipeline /\ [][NextPipeline]_vars

\* A caller that does not await its pumps: a pump may be issued while
\* others are pending. The destination is opened and loaded once, and is
\* written through pumps only.
Overlap_open == Awaited /\ ef.fh = 0 /\ ~sess.closed /\ ExpandingFile_open

Overlap_load == Awaited /\ ~sess.loaded /\ StreamPipeline_load

Overlap_pump_buffer == sess.loaded /\ StreamPipeline_pump_buffer

Overlap_pump_path == sess.loaded /\ StreamPipeline_pump_path

Overlap_pump_handle == sess.loaded /\ StreamPipeline_pump_handle

NextOverlap ==
    \/ Overlap_open
    \/ Overlap_load
    \/ Overlap_pump_buffer
    \/ Overlap_pump_path
    \/ Overlap_pump_handle
    \/ Stream_data
    \/ Stream_end
    \/ Stream_error
    \/ Destination_write

SpecOverlap == InitPipeline /\ [][NextOverlap]_vars

\* The event loop runs every callback that is due: a stream that can
\* deliver, end or write eventually does.
FairSpecPipeline ==
    /\ SpecPipeline
    /\ WF_vars(Stream_data)
    /\ WF_vars(Stream_end)
    /\ WF_vars(Destination_write)

-----------------------------------------------------------------------------
(* Properties of the expanding resources and of the pipeline *)

\* C1: after any sequence of successful writes, since construction or reset
\* for the ExpandingBuffer and since open for the open ExpandingFile, the
\* stored bytes are the normalized chunks concatenated in call order and
\* position is the number of bytes written.
C1_WritesConcatenate ==
    /\ eb.buf = ebWritten
    /\ eb.position = Len(ebWritten)
    /\ ef.fh # 0 => (dst.bytes = efWritten /\ ef.position = Len(efWritten))

C1_Witness ==
    /\ ef.fh # 0 /\ dst.bytes = <<1, 84, 69>> /\ ef.position = Len(dst.bytes)
    /\ Len(eb.buf) >= 2


\* C21: in every reachable state of an ExpandingBuffer position is the
\* length of buf, and every write returns that new total length.
C21_PositionIsLength ==
    /\ eb.position = Len(eb.buf)
    /\ ebres.op = "write" => ebres.ret = Len(eb.buf)
    /\ \A input \in WriteInputs :
          LET o == EBWrite(eb, input)
          IN  o.ret = Len(o.st.buf) /\ o.st.position = o.ret

\* A write that brought a buffer of 1 or 2 bytes to 3, and returned 3.
C21_Witness ==
    /\ ebres.op = "write" /\ ebres.pre >= 1 /\ ebres.ret = 3
    /\ Len(eb.buf) = 3 /\ eb.position = 3

\* The low 8 bits of an integer in two's complement: the b in 0..255 with
\* v - b a multiple of 256.
LowByte(v) == CHOOSE b \in 0..255 : 256 * ((v - b) \div 256) = v - b

\* C22: write(v) with one integer v, also outside 0..255, appends exactly
\* one byte, the low 8 bits of v, and ExpandingBuffer and ExpandingFile
\* produce the same byte; -65535 gives 1.
C22_NumberIsLowByte ==
    /\ LowByte(-65535) = 1
    /\ \A v \in Numbers :
          LET low == LowByte(v)
              b == EBWrite(eb, Num(v))
              f == EFWrite(ef, dst, Num(v))
          IN  /\ b.st.buf = eb.buf \o <<low>>
              /\ ef.fh # 0 =>
                    /\ f.kind = "ok"
                    /\ f.st.position = ef.position + 1
                    /\ Slice(f.dst.bytes, ef.position, Len(f.dst.bytes)) = <<low>>
                    /\ Slice(f.dst.bytes, 0, ef.position) = dst.bytes

\* write(-65535) as the first write on both resources.
C22_Witness ==
    /\ ebres.op = "write" /\ ebres.pre = 0 /\ eb.buf = <<1>>
    /\ ef.fh # 0 /\ dst.bytes = <<1>> /\ ef.position = 1

\* C26: after reset() an ExpandingBuffer is as a newly constructed one: buf
\* empty, position 0, and the writes that follow give the contents and
\* return the values they give on a new instance.
C26_ResetIsNew ==
    /\ EBReset(eb) = EBNew
    /\ ebres.op = "reset" => eb = EBNew
    /\ \A i \in WriteInputs, j \in WriteInputs :
          LET a1 == EBWrite(EBReset(eb), i)
              a2 == EBWrite(a1.st, j)
              b1 == EBWrite(EBNew, i)
              b2 == EBWrite(b1.st, j)
          IN  a1 = b1 /\ a2 = b2

\* A reset of a buffer that held 2 bytes or more.
C26_Witness ==
    /\ ebres.op = "reset" /\ ebres.pre >= 2
    /\ eb = EBNew

\* The sum of the wrote values of the first k results.
RECURSIVE SumWrote(_, _)
SumWrote(rs, k) == IF k = 0 THEN 0 ELSE SumWrote(rs, k - 1) + rs[k].wrote

\* The destination was opened, the pipeline was loaded on it since, and it
\* has not been closed.
LoadedOnOpen == sess.loaded /\ ~sess.closed /\ ef.fh # 0 /\ sp.destination = ef.fh

\* C2: when every pump is awaited before the next call, on a pipeline loaded
\* on a freshly opened ExpandingFile that is written through pumps only, the
\* k-th result's offset is the sum of the wrote values of the k-1 results
\* before it, and the destination's position is the sum of all wrote values.
C2_OffsetsArePrefixSums ==
    (LoadedOnOpen /\ ~sess.wrote) =>
        /\ \A k \in 1..Len(results) : results[k].offset = SumWrote(results, k - 1)
        /\ ef.position = SumWrote(results, Len(results))

\* Two awaited pumps, of L = 1 and M = 1 bytes: {0, 1} then {1, 1}.
C2_Witness ==
    /\ LoadedOnOpen /\ ~sess.wrote /\ Awaited
    /\ results = <<[offset |-> 0, wrote |-> 1], [offset |-> 1, wrote |-> 1]>>
    /\ ef.position = 2

\* C3: once every awaited call has returned and the write stream has
\* flushed, on an open, loaded destination on which no call failed, the
\* file holds the written and pumped byte sequences concatenated in call
\* order, and its length is the destination's position.
C3_FileIsConcatenation ==
    (LoadedOnOpen /\ ~sess.failed /\ Awaited /\ wq = <<>>) =>
        /\ dst.bytes = efWritten
        /\ Len(dst.bytes) = ef.position

\* C10: a pump issued on a loaded pipeline, whatever its source, is
\* eventually settled: resolved or rejected.
C10_EveryPumpSettles ==
    \A id \in PumpIds :
        (id \in DOMAIN pumps /\ pumps[id].st \in {"writing", "flowing"})
            ~> (id \notin DOMAIN pumps)

\* C11: a pump issued on a pipeline without a loaded destination is
\* rejected with a precondition error, so it is never left pending with
\* nothing registered to settle it, and no handle a pump opened stays open
\* on a pipeline that was never loaded.
C11_UnloadedPumpRejected ==
    /\ \A id \in DOMAIN pumps : pumps[id].st # "lost"
    /\ sp.destination = 0 => srcOpen = 0

\* C12: load with an ExpandingFile that holds no handle (never opened, or
\* closed) fails with the precondition error and leaves the pipeline as it
\* was: unbound when it was never loaded, bound as before otherwise.
C12_LoadNeedsOpenFile ==
    /\ ef.fh = 0 => SPLoad(sp, ef) = [st |-> sp, kind |-> "precondition"]
    /\ SPLoad(sp, EFNew) = [st |-> sp, kind |-> "precondition"]
    /\ SPLoad(SPNew, EFNew).st = [sbuf |-> FALSE, destination |-> 0]

\* A loaded pipeline whose destination has been closed since.
C12_Witness ==
    /\ sp.sbuf /\ sp.destination # 0
    /\ sess.loaded /\ sess.closed /\ ef.fh = 0
    /\ Awaited

\* C13: a pump whose source stream emitted an error is rejected with that
\* very error, and the destination's position is what it was when the pump
\* was issued.
C13_SourceErrorRejects ==
    (pres.how = "rejected" /\ pres.emitted # "") =>
        (pres.err = pres.emitted /\ ~pres.moved)

\* A pump rejected with EISDIR after an earlier pump had moved position.
C13_Witness ==
    /\ pres = PumpResult("rejected", "EISDIR", "EISDIR", FALSE)
    /\ LoadedOnOpen /\ Awaited
    /\ Len(results) >= 1 /\ ef.position >= 1

\* The oldest write of the destination stream is that of a pumped byte
\* sequence and cannot be carried out: its descriptor is closed.
BufferWriteFails ==
    /\ wq # <<>>
    /\ Head(wq).cb # 0
    /\ Head(wq).fd \notin dst.open

\* C14: when the write of a pumped byte sequence fails, the pump is
\* rejected, no result is reported and the destination's position stays
\* where it was.
C14_FailedWriteFailsPump ==
    [][ (BufferWriteFails /\ wq' = Tail(wq)) =>
            /\ ef'.position = ef.position
            /\ results' = results
            /\ pres'.how = "rejected" ]_vars

\* C15: once a pump has settled, resolved or rejected, the read handle it
\* opened itself on a source path is closed: with no pump pending no such
\* handle is open.
C15_PumpClosesOwnHandles ==
    Awaited => srcOpen = 0

\* C16: no step of the pipeline (load, pump, the steps of its streams)
\* closes or replaces the handle of the ExpandingFile; while the bound
\* destination is the open file its descriptor is open and a write on it
\* succeeds.
C16_PipelineLeavesHandle ==
    /\ [][ pipelineVars' # pipelineVars =>
              (ef'.fh = ef.fh /\ dst'.open = dst.open) ]_vars
    /\ [](LoadedOnOpen =>
              /\ ef.fh \in dst.open
              /\ \A input \in DirectWrites : EFWrite(ef, dst, input).kind = "ok")

\* A pump resolved on a destination, loaded and still open, on which an
\* earlier pump had failed.
C16_Witness ==
    /\ LoadedOnOpen /\ Awaited /\ sess.failed
    /\ pres.how = "resolved" /\ pres.moved
    /\ ef.fh \in dst.open

\* C17: whenever an ExpandingFile holds no handle, write fails with the
\* not-opened error, writes nothing to the file and leaves position at 0.
C17_WriteNeedsHandle ==
    ef.fh = 0 =>
        \A input \in WriteInputs :
            LET o == EFWrite(ef, dst, input)
            IN  /\ o.kind = "not-opened"
                /\ o.dst = dst
                /\ o.st.position = 0


\* C23: for every pump that resolves with {offset, wrote} in a sequence of
\* awaited pumps on a loaded destination written through pumps only, also
\* after an earlier pump failed, offset is the destination's position when
\* the pump was issued and, once the write stream has flushed, the file's
\* bytes [offset, offset + wrote) are the bytes that pump copied.
C23_ResultLocatesBytes ==
    /\ [][\A id \in DOMAIN pumps :
            (id \notin DOMAIN pumps' /\ Len(results') = Len(results) + 1)
                => results'[Len(results')].offset = pumps[id].from]_vars
    /\ []( ( /\ LoadedOnOpen /\ ~sess.wrote /\ Awaited /\ wq = <<>>
             /\ pres.how = "resolved" /\ Len(results) >= 1 )
           => LET r == results[Len(results)]
              IN  Slice(dst.bytes, r.offset, r.offset + r.wrote)
                      = Slice(efWritten, Len(efWritten) - r.wrote, Len(efWritten)) )


\* The start and length arguments of a pump: left out, or an integer with
\* 0 <= start < S and length >= 1.
RangeStarts == {Absent} \cup {Given(i) : i \in 0..(Len(SrcFile) - 1)}

RangeLengths == {Absent} \cup {Given(n) : n \in 1..MaxLen}

\* C24: pump(source, start, length) on a path or handle source of size S
\* with 0 <= start < S and length >= 1 copies the source bytes
\* [start, min(start + length, S)); with start given and length left out it
\* copies [start, S); with start left out it copies the whole source. The
\* path is streamed from a handle opened for the pump, the caller's handle
\* as the earlier pumps left it.
C24_RangeIsCopied ==
    Awaited =>
        \A start \in RangeStarts, length \in RangeLengths :
            LET S == Len(SrcFile)
                range == IF start = Absent THEN SrcFile
                         ELSE IF length = Absent THEN Slice(SrcFile, start[1], S)
                         ELSE Slice(SrcFile, start[1], Min(start[1] + length[1], S))
            IN  /\ StreamBytes(SrcFile, 0, start, length) = range
                /\ StreamBytes(SrcFile, srcCursor, start, length) = range


\* C25: when a pump of a stream source (path or handle) resolves, all of its
\* wrote bytes have been written to the destination file, so that a close()
\* of the ExpandingFile right after the awaited pump leaves them in the
\* file: no write of the destination stream is still to be carried out.
C25_ResolvedMeansWritten ==
    [][\A id \in DOMAIN pumps :
          ( /\ pumps[id].kind \in {"path", "handle"}
            /\ id \notin DOMAIN pumps'
            /\ pres'.how = "resolved"
            /\ Len(results') = Len(results) + 1 )
          => wq' = <<>>]_vars


\* C35: when the positioned write reports fewer bytes written than the
\* input holds, ExpandingFile.write advances position by the bytes written
\* only and returns that position, so the next write starts where the
\* written bytes end: the file's bytes [0, position) are the written bytes
\* in order, without a hole and without an overlap.
C35_ShortWriteKeepsFileDense ==
    ef.fh # 0 =>
        /\ dst.bytes = efWritten
        /\ Len(dst.bytes) = ef.position
        /\ \A input \in WriteInputs :
              \A accepted \in 0..Len(Normalize(input)) :
                  LET o == EFWriteShort(ef, dst, input, accepted)
                  IN  /\ o.kind = "ok"
                      /\ o.st.position = ef.position + accepted
                      /\ o.ret = o.st.position
                      /\ o.dst.bytes = dst.bytes \o Slice(Normalize(input), 0, accepted)

\* Of the two bytes 84, 69 the first write took one; the next write put
\* both right after it.
C35_Witness ==
    /\ ef.fh # 0 /\ dst.bytes = <<84, 84, 69>> /\ ef.position = 3


\* C36: open() on an ExpandingFile truncates the file and zeroes position
\* whatever the state before: after write(c1); close(); open(); write(c2)
\* the file holds exactly c2 and position is the length of c2.
C36_OpenTruncates ==
    /\ \A fd \in Fds \ dst.open :
          LET o == EFOpen(ef, dst, fd)
          IN  o.st.position = 0 /\ o.st.fh = fd /\ o.dst.bytes = <<>>
    /\ \A c1 \in WriteInputs, c2 \in WriteInputs :
          LET w1 == EFWrite(ef, dst, c1)
              c  == EFClose(w1.st, w1.dst)
          IN  \A fd \in Fds \ c.dst.open :
                  LET o  == EFOpen(c.st, c.dst, fd)
                      w2 == EFWrite(o.st, o.dst, c2)
                  IN  /\ w2.kind = "ok"
                      /\ w2.dst.bytes = Normalize(c2)
                      /\ w2.st.position = Len(Normalize(c2))
                      /\ w2.ret = Len(Normalize(c2))
    /\ (ef.fh # 0 /\ efWritten = <<>>) => (dst.bytes = <<>> /\ ef.position = 0)

\* The file held three bytes when it was opened again; the write after
\* that open is all it holds now.
C36_Witness ==
    /\ ef.fh # 0 /\ sess.truncated = 3 /\ sess.wrote
    /\ dst.bytes = <<65>> /\ ef.position = 1


\* C37: the pipeline does not serialize overlapping pumps. A pump issued
\* while another is pending is started at once, takes the destination's
\* current position as its own and reserves nothing: position changes only
\* when a pump completes. So a state is reachable (the witness) in which
\* the destination's bytes are not the two sources in issue order and a
\* result's offset does not locate that pump's bytes.
C37_PumpsNotSerialized ==
    [][\A id \in DOMAIN pumps' \ DOMAIN pumps :
          /\ pumps'[id].from = ef.position
          /\ ef' = ef
          /\ pumps'[id].st \in {"writing", "flowing"}
          /\ pumps'[id].st = "writing" =>
                wq' = Append(wq, [fd |-> sp.destination, bytes |-> pumps'[id].src, cb |-> id])]_vars

\* The stream's bytes 83, 82 were pumped first and the buffer 80 while that
\* pump was pending: the file holds 83, 80, 82, and the buffer's result
\* {offset 0, wrote 1} points at 83.
C37_Witness ==
    /\ LoadedOnOpen /\ wq = <<>>
    /\ DOMAIN pumps = {1}
    /\ pumps[1].kind \in {"path", "handle"} /\ pumps[1].from = 0
    /\ pumps[1].src = <<83, 82>> /\ pumps[1].bytesRead = 2
    /\ results = <<[offset |-> 0, wrote |-> 1]>>
    /\ efWritten = <<80>>
    /\ dst.bytes = <<83, 80, 82>>
    /\ dst.bytes # pumps[1].src \o efWritten
    /\ Slice(dst.bytes, results[1].offset, results[1].offset + results[1].wrote) # efWritten

\* C38: for overlapping pumps on one loaded destination, under every
\* interleaving of their completions, once all of them have resolved the
\* position has grown by the sum of their wrote values, and the results'
\* ranges [offset, offset + wrote) are pairwise disjoint and cover the
\* interval from the starting position to the final position.
C38_RangesTileThePosition ==
    LoadedOnOpen =>
        /\ \A k \in 1..Len(results) :
              results[k].offset = IF k = 1 THEN 0
                                  ELSE results[k - 1].offset + results[k - 1].wrote
        /\ \A j \in 1..Len(results), k \in 1..Len(results) :
              j < k => results[j].offset + results[j].wrote <= results[k].offset
        /\ ef.position = SumWrote(results, Len(results))
        /\ ef.position = IF results = <<>> THEN 0
                          ELSE results[Len(results)].offset + results[Len(results)].wrote

\* Two overlapping pumps, their bytes interleaved in the file, both
\* resolved: {0, 1} for the buffer and {1, 2} for the stream.
C38_Witness ==
    /\ LoadedOnOpen /\ Awaited /\ wq = <<>>
    /\ dst.bytes = <<83, 80, 82>>
    /\ results = <<[offset |-> 0, wrote |-> 1], [offset |-> 1, wrote |-> 2]>>
    /\ ef.position = 3

-----------------------------------------------------------------------------
(* Properties of the consumable resources *)

\* The cursor of a ConsumableBuffer: how many bytes of the original are gone.
CBOffset(s) == Len(s.originalBuffer) - Len(s.buf)

\* The bytes of the file at and after position p.
Remaining(file, p) == Slice(file, p, Len(file))

C5_ReadBeyondFails ==
    /\ ( /\ res.obj = "cb" /\ res.op = "read"
         /\ res.arg > Len(res.pre.buf) )
       => /\ res.kind = "out-of-range"
          /\ res.bytes = <<>>
          /\ cb = res.pre
    /\ ( /\ res.obj = "cf" /\ res.op = "read" /\ CFIsOpen(res.pre)
         /\ res.arg > Len(Remaining(data, res.pre.position)) )
       => /\ res.kind = "out-of-range"
          /\ res.bytes = <<>>
          /\ cf = res.pre

\* C6: from any reachable state reset() followed by read(n) gives what
\* read(n) gives as the first call after construction (the buffer) or open
\* (the file), and a second reset() changes nothing.
C6_ResetRewinds ==
    /\ \A n \in Args :
          LET a == CBRead(CBReset(cb), n)
              b == CBRead(CBNew(data), n)
          IN  a.kind = b.kind /\ a.bytes = b.bytes
    /\ CBReset(CBReset(cb)) = CBReset(cb)
    /\ CFIsOpen(cf) =>
          /\ \A n \in Args :
                LET a == CFRead(CFReset(cf), data, cfCursor, n, legacy)
                    b == CFRead(CFOpen(CFNew, data), data, 0, n, legacy)
                IN  a.kind = b.kind /\ a.bytes = b.bytes
          /\ CFReset(CFReset(cf)) = CFReset(cf)

C6_Witness ==
    /\ res.obj = "cf" /\ res.op = "reset" /\ CFIsOpen(cf)
    /\ res.pre.position >= 2 /\ cf.position = 0
    /\ Len(cb.buf) < Len(data)

\* The calls aseek(k); read(n) on a buffer: the kind of each call, the bytes
\* read and the cursor at the end.
CBAseekRead(s, k, n) ==
    LET a == CBAseek(s, k)
        r == CBRead(a.st, n)
    IN  <<a.kind, r.kind, r.bytes, CBOffset(r.st)>>

CBResetSeekRead(s, k, n) ==
    LET a == CBSeek(CBReset(s), k)
        r == CBRead(a.st, n)
    IN  <<a.kind, r.kind, r.bytes, CBOffset(r.st)>>

CFAseekRead(s, file, cursor, k, n, leg) ==
    LET a == CFAseek(s, k)
        r == CFRead(a.st, file, cursor, n, leg)
    IN  <<a.kind, r.kind, r.bytes, r.st.position>>

CFResetSeekRead(s, file, cursor, k, n, leg) ==
    LET a == CFSeek(CFReset(s), k)
        r == CFRead(a.st, file, cursor, n, leg)
    IN  <<a.kind, r.kind, r.bytes, r.st.position>>

\* C7: in every reachable state and for all integers k >= 0 and n >= 0,
\* aseek(k); read(n) has the outcome of reset(); seek(k); read(n): each call
\* fails or succeeds alike, with the same error kind, the same bytes and the
\* same final cursor, for the buffer and for the open file.
C7_AseekIsResetSeek ==
    \A k \in 0..MaxArg, n \in 0..MaxArg :
        /\ CBAseekRead(cb, k, n) = CBResetSeekRead(cb, k, n)
        /\ CFIsOpen(cf) =>
              CFAseekRead(cf, data, cfCursor, k, n, legacy)
                  = CFResetSeekRead(cf, data, cfCursor, k, n, legacy)

\* C8: in every reachable state of a ConsumableBuffer originalBuffer is the
\* byte sequence given to the constructor and buf is a suffix of it.
C8_BufIsSuffixOfOriginal ==
    /\ cb.originalBuffer = data
    /\ IsSuffix(cb.buf, cb.originalBuffer)

C8_Witness ==
    /\ res.obj = "cb" /\ res.op = "read" /\ res.kind = "ok"
    /\ Len(res.pre.buf) < Len(data)
    /\ Len(cb.buf) >= 1 /\ Len(cb.buf) < Len(res.pre.buf)

\* C9: in every reachable state of an open ConsumableFile,
\* 0 <= position <= filesize.
C9_PositionWithinFile ==
    CFIsOpen(cf) => (0 <= cf.position /\ cf.position <= Size(cf))

\* C18: in every state in which a ConsumableFile holds no handle (before the
\* first open, after close, after an open that failed), read, seek and aseek
\* fail with the not-opened error, whatever their argument.
C18_NoHandleNotOpened ==
    /\ cf.fh = 0 =>
          \A n \in Args :
              /\ CFRead(cf, data, cfCursor, n, legacy).kind = "not-opened"
              /\ CFSeek(cf, n).kind = "not-opened"
              /\ CFAseek(cf, n).kind = "not-opened"
    /\ ( /\ res.obj = "cf" /\ res.op \in {"read", "seek", "aseek"}
         /\ res.pre.fh = 0 )
       => res.kind = "not-opened"

\* read(0) refused on a file without handle whose position a refused seek
\* had moved.
C18_Witness ==
    /\ res.obj = "cf" /\ res.op = "read" /\ res.arg = 0
    /\ res.pre.fh = 0 /\ res.pre.position # 0 /\ res.kind = "not-opened"

\* C20: a successful open() of a ConsumableFile, from any state, leaves the
\* handle present, filesize at the byte length of the file and position at
\* 0; an open() that fails because the path cannot be read leaves handle,
\* filesize and position as they were.
C20_OpenSetsMetadata ==
    /\ LET o == CFTryOpen(cf, data, TRUE)
       IN  /\ o.kind = "ok"
           /\ CFIsOpen(o.st) /\ Size(o.st) = Len(data) /\ o.st.position = 0
    /\ LET o == CFTryOpen(cf, data, FALSE)
       IN  o.kind # "ok" /\ o.st = cf
    /\ (res.obj = "cf" /\ res.op = "open") =>
          IF res.kind = "ok"
          THEN CFIsOpen(cf) /\ Size(cf) = Len(data) /\ cf.position = 0
          ELSE cf = res.pre

\* An open() of an open file that had been read up to offset 2 or beyond.
C20_Witness ==
    /\ res.obj = "cf" /\ res.op = "open" /\ res.kind = "ok"
    /\ CFIsOpen(res.pre) /\ res.pre.position >= 2
    /\ Size(cf) >= 2 /\ cf.position = 0

\* C19: close() of a ConsumableFile or ExpandingFile succeeds from every
\* state; afterwards the handle is absent, position is 0 and the
\* ConsumableFile's filesize is absent. Without a handle close() releases no
\* descriptor; with one it releases that descriptor, once: the handle an
\* instance holds is an open descriptor, and a second close() finds none.
C19_CloseClears ==
    /\ CFClose(cf) = CFNew
    /\ cf.fh # 0 => cfHandles >= 1
    /\ CFRelease(cf, cfHandles) = IF cf.fh = 0 THEN cfHandles ELSE cfHandles - 1
    /\ CFRelease(CFClose(cf), CFRelease(cf, cfHandles)) = CFRelease(cf, cfHandles)
    /\ (res.obj = "cf" /\ res.op = "close") => (res.kind = "ok" /\ cf = CFNew)
    /\ LET o == EFClose(ef, dst)
       IN  /\ o.st = EFNew
           /\ ef.fh = 0 => o.dst = dst
           /\ ef.fh # 0 => /\ ef.fh \in dst.open
                            /\ o.dst.open = dst.open \ {ef.fh}
                            /\ o.dst.bytes = dst.bytes
           /\ EFClose(o.st, o.dst) = o
    /\ sess.closed => ef = EFNew

\* Both files closed after use: the ConsumableFile from offset 1 or beyond,
\* the ExpandingFile with bytes written.
C19_Witness ==
    /\ res.obj = "cf" /\ res.op = "close" /\ CFIsOpen(res.pre)
    /\ res.pre.position >= 1 /\ cf = CFNew /\ cfHandles = 0
    /\ sess.closed /\ sess.wrote /\ ef = EFNew /\ dst.bytes # <<>>


\* The arguments of a relative seek, backward and forward.
SeekArgs == (0 - MaxArg)..MaxArg

\* C27 (amended): on an open ConsumableFile at position p with
\* 0 <= p <= filesize, seek(n) succeeds exactly when 0 < p + n <= filesize
\* and then sets position to p + n; it fails with the invalid-argument error
\* when p + n <= 0, and with the out-of-range error when p + n > filesize.
C27_SeekSucceedsInside ==
    /\ (CFIsOpen(cf) /\ 0 <= cf.position /\ cf.position <= Size(cf)) =>
          \A n \in SeekArgs :
              LET o == CFSeek(cf, n)
                  t == cf.position + n
              IN  /\ o.kind = "ok" <=> (0 < t /\ t <= Size(cf))
                  /\ o.kind = "ok" => o.st.position = t
                  /\ t <= 0 => o.kind = "invalid-argument"
                  /\ t > Size(cf) => o.kind = "out-of-range"
    /\ ( /\ res.obj = "cf" /\ res.op = "seek" /\ CFIsOpen(res.pre)
         /\ 0 <= res.pre.position /\ res.pre.position <= Size(res.pre) )
       => LET t == res.pre.position + res.arg
          IN  /\ res.kind = "ok" <=> (0 < t /\ t <= Size(res.pre))
              /\ res.kind = "ok" => cf.position = t

\* A backward seek inside the file that succeeded.
C27_Witness ==
    /\ res.obj = "cf" /\ res.op = "seek" /\ res.arg < 0 /\ res.kind = "ok"
    /\ CFIsOpen(res.pre) /\ res.pre.position <= Size(res.pre)
    /\ cf.position = res.pre.position + res.arg

\* C27 as stated: seek(n) succeeds exactly when 0 <= p + n <= filesize, and
\* fails with the invalid-argument error when p + n < 0.
C27_SeekSucceedsFromZero ==
    (CFIsOpen(cf) /\ 0 <= cf.position /\ cf.position <= Size(cf)) =>
        \A n \in SeekArgs :
            LET o == CFSeek(cf, n)
                t == cf.position + n
            IN  /\ o.kind = "ok" <=> (0 <= t /\ t <= Size(cf))
                /\ o.kind = "ok" => o.st.position = t
                /\ t < 0 => o.kind = "invalid-argument"
                /\ t > Size(cf) => o.kind = "out-of-range"

\* C28: a seek or aseek on a ConsumableFile that fails (not-opened,
\* invalid-argument or out-of-range) leaves position as it was before the
\* call.
C28_FailedSeekKeepsPosition ==
    ( /\ res.obj = "cf" /\ res.op \in {"seek", "aseek"}
      /\ res.kind \in {"not-opened", "invalid-argument", "out-of-range"} )
    => cf.position = res.pre.position

Beyond(s) == CFIsOpen(s) /\ s.position > Size(s)

NumberArgs == {Finite(n) : n \in Args} \cup {NaN, PosInfinity, NegInfinity}

C32_SeekFailsAsRead ==
    \A x \in NumberArgs :
        LET r == CBReadNumber(cb, x)
            k == CBSeekNumber(cb, x)
        IN  k.kind = r.kind /\ k.st = r.st


\* C33: in a ConsumableBuffer no read or seek, successful or failed, ever
\* increases the number of remaining bytes: what remains after the call is a
\* suffix of what remained before, and the cursor moves backward only
\* through reset() or aseek().
C33_OnlyResetMovesBack ==
    /\ []( /\ \A x \in NumberArgs :
                /\ IsSuffix(CBReadNumber(cb, x).st.buf, cb.buf)
                /\ IsSuffix(CBSeekNumber(cb, x).st.buf, cb.buf)
           /\ (res.obj = "cb" /\ res.op \in {"read", "seek"}) =>
                 (IsSuffix(cb.buf, res.pre.buf) /\ cb.originalBuffer = res.pre.originalBuffer) )
    /\ [][Len(cb'.buf) > Len(cb.buf)
             => (res'.obj = "cb" /\ res'.op \in {"reset", "aseek"})]_vars

\* A seek that succeeded in the middle of the buffer and a read that failed
\* there: both leave a suffix of what remained.
C33_Witness ==
    /\ res.obj = "cb" /\ res.op = "seek" /\ res.kind = "ok" /\ res.arg >= 1
    /\ Len(res.pre.buf) < Len(data)
    /\ Len(cb.buf) = Len(res.pre.buf) - res.arg
    /\ CBRead(cb, Len(cb.buf) + 1).kind = "out-of-range"


\* One call on a buffer: the error kind, the bytes handed back and the
\* number of bytes consumed afterwards.
CBCall(s, op, n) ==
    LET o == CASE op = "reset" -> Out(CBReset(s), "ok", <<>>)
               [] op = "read" -> CBRead(s, n)
               [] op = "seek" -> CBSeek(s, n)
               [] op = "aseek" -> CBAseek(s, n)
    IN  <<o.kind, o.bytes, CBOffset(o.st)>>

\* The same call on a file.
CFCall(s, file, cursor, op, n, leg) ==
    LET o == CASE op = "reset" -> Out(CFReset(s), "ok", <<>>)
               [] op = "read" -> LET r == CFRead(s, file, cursor, n, leg)
                                 IN  Out(r.st, r.kind, r.bytes)
               [] op = "seek" -> CFSeek(s, n)
               [] op = "aseek" -> CFAseek(s, n)
    IN  <<o.kind, o.bytes, o.st.position>>

\* C34: over the same bytes, a ConsumableBuffer and an open ConsumableFile
\* that have consumed the same number of bytes give the same outcome for
\* every reset, read, seek and aseek with a non-negative integer argument
\* (the same error kind, the same bytes) and have consumed the same number
\* of bytes after the call, so that they agree along every sequence of calls.
C34_BufferAndFileAgree ==
    (CFIsOpen(cf) /\ Size(cf) = Len(data) /\ cf.position = CBOffset(cb)) =>
        \A op \in {"reset", "read", "seek", "aseek"}, n \in 0..MaxArg :
            CFCall(cf, data, cfCursor, op, n, legacy) = CBCall(cb, op, n)


\* C39: a ConsumableFile or ExpandingFile instance holds at most one OS file
\* handle at any time, and every handle an open() acquired is released by a
\* later close(), also when open() is called on an instance that is already
\* open: no more than one descriptor is open per instance, and none once
\* the instance is closed.
C39_OneHandlePerInstance ==
    /\ cfHandles <= 1
    /\ cf.fh = 0 => cfHandles = 0
    /\ Cardinality(dst.open) <= 1
    /\ ef.fh = 0 => dst.open = {}


\* C40: when the positioned read returns fewer than n bytes although the
\* bounds check passed (the file shrank after open), read(n) fails with the
\* short-read error, hands no bytes to the caller, is not retried, and
\* position has been advanced by n all the same.
C40_ShortReadFailsAndAdvances ==
    /\ ( /\ res.obj = "cf" /\ res.op = "read" /\ CFIsOpen(res.pre)
         /\ res.arg >= 1 /\ res.pre.position >= 0
         /\ res.pre.position + res.arg <= Size(res.pre)
         /\ res.pre.position + res.arg > Len(data) )
       => /\ res.kind = "short-read"
          /\ res.bytes = <<>>
          /\ cf = [res.pre EXCEPT !.position = res.pre.position + res.arg]
    /\ (CFIsOpen(cf) /\ cf.position >= 0) =>
          \A n \in 1..MaxArg :
              (cf.position + n <= Size(cf) /\ cf.position + n > Len(data)) =>
                  CFRead(cf, data, cfCursor, n, legacy)
                      = FOut([cf EXCEPT !.position = cf.position + n],
                             "short-read", <<>>, cfCursor)

\* A read of two bytes inside the recorded filesize, of a file that has
\* since lost its end: short-read, and position two further.
C40_Witness ==
    /\ res.obj = "cf" /\ res.op = "read" /\ res.kind = "short-read"
    /\ res.arg = 2 /\ res.pre.position = 1 /\ Size(res.pre) = 3
    /\ Len(data) = 2
    /\ res.bytes = <<>> /\ cf.position = 3

====
